---- MODULE Spec2Model ----
(***************************************************************************)
(* ColorAllocator (src/core/configuration/ColorAllocator.ts): sampling     *)
(* without replacement over a working palette, with a fallback palette on  *)
(* exhaustion, a memo table per identity, and a second memo table for      *)
(* team-player colors.                                                     *)
(*                                                                         *)
(* A color is a natural number: one gray channel counted in half units     *)
(* (3 is the channel value 1.5), so that rounding a channel is visible.    *)
(* Arrays are sequences; the code's index i is position i + 1.             *)
(***************************************************************************)
EXTENDS Integers, Sequences, FiniteSets, TLC

\* ---------------------------------------------------------------- bounds
MaxLen == 2
NumColors == 3
MaxDist == 2

\* ---------------------------------------------------------------- inputs
Colors == 1..NumColors
Palettes == UNION {[1..n -> Colors] : n \in 0..MaxLen}
\* Colors are opaque to the allocator, so the two palettes are taken up to
\* renaming: reading primary then fallback, each new color is the least one
\* not yet used.
FirstUse(s) == \A i \in DOMAIN s : s[i] <= 1 + Cardinality({s[j] : j \in 1..(i - 1)})
Players == {"p1"}
AdHocTeams == {"alpha"}
Ids == {"p1", "p2"} \cup AdHocTeams
TeamInputs == {"Nations"} \cup AdHocTeams

\* What a call produced: a color, an exception, or (for acRet) no call at all.
Returned(c) == [kind |-> "color", color |-> c]
Threw == [kind |-> "threw", color |-> 0]
NoCall == [kind |-> "none", color |-> 0]
NoOp == [name |-> "none", id |-> "", team |-> "", playerId |-> ""]
EmptyMap == [k \in {} |-> 0]

Range(s) == {s[i] : i \in DOMAIN s}

VARIABLES
    colors,            \* the list the caller passed as primary palette
    fallback,          \* the list the caller passed as fallback palette
    availableColors,   \* this.availableColors
    fallbackColors,    \* this.fallbackColors
    assigned,          \* this.assigned        (Map id -> color)
    teamPlayerColors,  \* this.teamPlayerColors (Map playerId -> color)
    sampleWOReplace,   \* this.sampleWOReplace
    sameArray,         \* which other lists are the very array a field refers to
    op,                \* the last call made on the allocator
    ret,               \* what it produced: Returned(color), or Threw
    acRet,             \* what assignColor produced inside that call (NoCall: not run)
    firstColor,        \* history: id -> color of the first return of assignColor(id)
    firstTeamPlayer,   \* history: playerId -> color of the first return of assignTeamPlayerColor(_, playerId)
    sinceReset,        \* history: the colors handed out since the last exhaustion reset, in order
    hist,              \* history: the identities this allocator ran a draw for, in order
    twinHist,          \* history: the same for the twin, when it is driven on its own
    rngTable,          \* the seeded generator, as far as it has been asked: <<id, hi>> -> value
    hashTable,         \* simpleHash, as far as it has been asked: id -> value
    twin,              \* a second allocator built from the same two lists
    pending,           \* the call the twin has still to replay
    swArray, swX, swY, swOut, \* a direct call swap(swArray, swX, swY) and its outcome
    selAvailable,      \* selectDistinctColorIndex: the argument availableColors
    selAssigned,       \* selectDistinctColorIndex: the argument assignedColors
    selDist,           \* the color difference: {c1, c2} -> deltaE 2000
    selOut             \* the outcome of the call

allocVars == <<availableColors, fallbackColors, assigned, teamPlayerColors, sampleWOReplace,
               sameArray>>
obsVars == <<op, ret, acRet, firstColor, firstTeamPlayer, sinceReset>>
orderVars == <<hist, twinHist>>
extVars == <<rngTable, hashTable>>
twinVars == <<twin, pending>>
swapVars == <<swArray, swX, swY, swOut>>
selVars == <<selAvailable, selAssigned, selDist, selOut>>
vars == <<colors, fallback, allocVars, obsVars, extVars, twinVars, swapVars, selVars,
          orderVars>>

\* ------------------------------------------------------ external tables
\* ./Colors: the per-team variation lists (short stand-ins, same shape).
blueTeamColors == <<41, 42>>
redTeamColors == <<51, 53>>
tealTeamColors == <<61, 62>>
purpleTeamColors == <<71, 72>>
yellowTeamColors == <<81, 82>>
orangeTeamColors == <<91, 92>>
greenTeamColors == <<101, 102>>
botTeamColors == <<111, 112>>

\* The hash is only ever taken modulo the length of a variation list: these
\* values give every residue.
HashValues == 0..(Len(redTeamColors) - 1)

\* colord: toRgb() with the channels rounded, then colord(rgb).
RoundRgb(c) == 2 * ((c + 1) \div 2)

\* PseudoRandom.nextInt(lo, hi): the values a generator may return.
RandChoices(lo, hi) == IF hi > lo THEN lo..(hi - 1) ELSE hi..lo

\* new PseudoRandom(simpleHash(id)).nextInt(lo, hi): a fixed function of
\* the identity and the range, determined the first time it is asked; tbl
\* holds the values already determined.
nextInt(tbl, id, lo, hi) ==
    IF <<id, hi>> \in DOMAIN tbl THEN {tbl[<<id, hi>>]} ELSE RandChoices(lo, hi)

\* simpleHash(id): a fixed non-negative function of the string, determined
\* the first time it is asked.
simpleHash(tbl, id) ==
    IF id \in DOMAIN tbl THEN {tbl[id]} ELSE HashValues

\* The environment after the generator seeded by id answered r for [0, hi).
NoteRng(e, id, hi, r) == [e EXCEPT !.rng = (<<id, hi>> :> r) @@ e.rng]
\* The environment after simpleHash(id) answered h.
NoteHash(e, id, h) == [e EXCEPT !.hash = (id :> h) @@ e.hash]

\* ------------------------------------------------------------ allocator
\* An array is an object: two names may refer to the same one, and a write
\* through either shows through the other. sameArray.availableColors holds
\* the names ("colors", "fallback": the caller's lists; "fallbackColors")
\* that refer to the array this.availableColors refers to, and
\* sameArray.fallbackColors those ("fallback") that refer to the array
\* this.fallbackColors refers to. A spread [...list] makes a new array.
NothingShared == [availableColors |-> {}, fallbackColors |-> {}]

\* the constructor as it would be if it kept the caller's arrays
ColorAllocatorKeepsArrays(cs, fb) ==
    [availableColors |-> cs,
     fallbackColors |-> fb,
     assigned |-> EmptyMap,
     teamPlayerColors |-> EmptyMap,
     sampleWOReplace |-> 0,
     sameArray |-> [availableColors |-> {"colors"}, fallbackColors |-> {"fallback"}]]

\* constructor(colors, fallback)
ColorAllocator(cs, fb) ==
    [availableColors |-> cs,
     fallbackColors |-> fb,
     assigned |-> EmptyMap,
     teamPlayerColors |-> EmptyMap,
     sampleWOReplace |-> 0,
     sameArray |-> NothingShared]

\* swap as it would be if it clamped an index into the array instead of
\* refusing it.
swapClamping(array, x, y) ==
    LET clamp(i) == IF i < 0 THEN 0 ELSE IF i >= Len(array) THEN Len(array) - 1 ELSE i
    IN  IF Len(array) = 0 THEN [threw |-> TRUE, array |-> array]
        ELSE [threw |-> FALSE,
              array |-> [array EXCEPT ![clamp(x) + 1] = array[clamp(y) + 1],
                                      ![clamp(y) + 1] = array[clamp(x) + 1]]]

\* swap as it would be if it validated the indices and then left the array
\* as it was.
swapNoExchange(array, x, y) ==
    IF x >= Len(array) \/ x < 0 THEN [threw |-> TRUE, array |-> array]
    ELSE IF y >= Len(array) \/ y < 0 THEN [threw |-> TRUE, array |-> array]
    ELSE [threw |-> FALSE, array |-> array]

\* swap(array, x, y): threw, or the array with x and y exchanged.
swap(array, x, y) ==
    IF x >= Len(array) \/ x < 0 THEN [threw |-> TRUE, array |-> array]
    ELSE IF y >= Len(array) \/ y < 0 THEN [threw |-> TRUE, array |-> array]
    ELSE [threw |-> FALSE,
          array |-> [array EXCEPT ![x + 1] = array[y + 1], ![y + 1] = array[x + 1]]]

\* the memo test of assignColor as it would be if it never hit
hasAssignedNever(a, id) == FALSE

\* this.assigned.has(id)
hasAssigned(a, id) == id \in DOMAIN a.assigned

\* the exhaustion reset as it would be if it reset the cursor and kept the
\* used-up palette
resetKeepsPalette(a) ==
    IF a.sampleWOReplace = Len(a.availableColors)
    THEN [a EXCEPT !.sampleWOReplace = 0]
    ELSE a

\* the exhaustion reset as it would be if it replaced the palette and left
\* the cursor where it was
resetKeepsCursor(a) ==
    IF a.sampleWOReplace = Len(a.availableColors)
    THEN [a EXCEPT !.availableColors = a.fallbackColors,
                   !.sameArray.availableColors = {}]
    ELSE a

\* the exhaustion reset as it would be if it took the stored fallback array
\* itself instead of a copy
resetSharesFallback(a) ==
    IF a.sampleWOReplace = Len(a.availableColors)
    THEN [a EXCEPT !.availableColors = a.fallbackColors,
                   !.sampleWOReplace = 0,
                   !.sameArray.availableColors =
                       {"fallbackColors"} \cup a.sameArray.fallbackColors]
    ELSE a

\* the exhaustion reset at the head of a draw
resetIfExhausted(a) ==
    IF a.sampleWOReplace = Len(a.availableColors)
    THEN [a EXCEPT !.availableColors = a.fallbackColors,
                   !.sampleWOReplace = 0,
                   !.sameArray.availableColors = {}]
    ELSE a

\* the upper end of the range handed to nextInt
drawRange(a) == Len(a.availableColors) - a.sampleWOReplace

\* the draw as it would be with a generator that is not seeded by the
\* identity
randIndexUnseeded(tbl, a, id) == RandChoices(0, drawRange(a))

\* the values randIndex may take for identity id on allocator a
randIndexChoices(tbl, a, id) == nextInt(tbl, id, 0, drawRange(a))

\* the second index as it would be if computed before the increment
swapTargetBeforeIncrement(a) == Len(a.availableColors) - a.sampleWOReplace + 1

\* the second index handed to swap
swapTarget(a) == Len(a.availableColors) - a.sampleWOReplace

\* const color = availableColors[randIndex]; sampleWOReplace++; swap(...);
\* assigned.set(id, color); return color
takeColor(a, id, randIndex) ==
    LET color == IF randIndex + 1 \in DOMAIN a.availableColors
                 THEN a.availableColors[randIndex + 1]
                 ELSE 0  \* undefined
        a2 == [a EXCEPT !.sampleWOReplace = a.sampleWOReplace + 1]
        sw == swap(a2.availableColors, randIndex, swapTarget(a2))
    IN  IF sw.threw
        THEN [alloc |-> a2, result |-> Threw]
        ELSE [alloc |-> [a2 EXCEPT !.availableColors = sw.array,
                                   \* the exchange is made in place
                                   !.fallbackColors =
                                       IF "fallbackColors" \in a2.sameArray.availableColors
                                       THEN sw.array ELSE a2.fallbackColors,
                                   !.assigned = (id :> color) @@ a2.assigned],
              result |-> Returned(color)]

\* assignColor as it would be if the exhaustion test came before the memo
\* test
assignColorResetFirst(a, e, id) ==
    LET a1 == resetIfExhausted(a)
    IN  IF hasAssigned(a1, id)
        THEN {[alloc |-> a1, env |-> e, result |-> Returned(a1.assigned[id])]}
        ELSE {[alloc |-> takeColor(a1, id, r).alloc,
               env |-> NoteRng(e, id, drawRange(a1), r),
               result |-> takeColor(a1, id, r).result]
                 : r \in randIndexChoices(e.rng, a1, id)}

\* assignColor(id): the outcomes [alloc, env, result] of a call on allocator
\* a in environment e.
assignColor(a, e, id) ==
    IF hasAssigned(a, id)
    THEN {[alloc |-> a, env |-> e, result |-> Returned(a.assigned[id])]}
    ELSE LET a1 == resetIfExhausted(a)
         IN  {[alloc |-> takeColor(a1, id, r).alloc,
               env |-> NoteRng(e, id, drawRange(a1), r),
               result |-> takeColor(a1, id, r).result]
                 : r \in randIndexChoices(e.rng, a1, id)}

\* getTeamColorVariations as it would be if every team took the default
\* branch
getTeamColorVariationsAlwaysDraws(a, e, team) ==
    {[alloc |-> o.alloc, env |-> o.env,
      list |-> IF o.result.kind = "color" THEN <<o.result.color>> ELSE <<>>,
      ac |-> o.result] : o \in assignColor(a, e, team)}

\* getTeamColorVariations(team): the outcomes [alloc, env, list, ac]; list
\* is <<>> when assignColor threw, ac is what assignColor produced.
getTeamColorVariations(a, e, team) ==
    LET fixed(list) == {[alloc |-> a, env |-> e, list |-> list, ac |-> NoCall]}
    IN  CASE team = "Blue" -> fixed(blueTeamColors)
          [] team = "Red" -> fixed(redTeamColors)
          [] team = "Teal" -> fixed(tealTeamColors)
          [] team = "Purple" -> fixed(purpleTeamColors)
          [] team = "Yellow" -> fixed(yellowTeamColors)
          [] team = "Orange" -> fixed(orangeTeamColors)
          [] team = "Green" -> fixed(greenTeamColors)
          [] team = "Bot" -> fixed(botTeamColors)
          [] team = "Humans" -> fixed(blueTeamColors)
          [] team = "Nations" -> fixed(redTeamColors)
          [] OTHER ->
               {[alloc |-> o.alloc, env |-> o.env,
                 list |-> IF o.result.kind = "color" THEN <<o.result.color>> ELSE <<>>,
                 ac |-> o.result] : o \in assignColor(a, e, team)}

\* assignTeamColor(team): the outcomes [alloc, env, result, ac].
assignTeamColor(a, e, team) ==
    {[alloc |-> v.alloc, env |-> v.env, ac |-> v.ac,
      result |-> IF v.ac.kind = "threw" THEN Threw
                 ELSE Returned(RoundRgb(v.list[1]))]
        : v \in getTeamColorVariations(a, e, team)}

\* the memo test of assignTeamPlayerColor as it would be if it never hit
hasTeamPlayerNever(a, playerId) == FALSE

\* this.teamPlayerColors.has(playerId)
hasTeamPlayer(a, playerId) == playerId \in DOMAIN a.teamPlayerColors

\* hashValue % teamColors.length
colorIndex(hashValue, teamColors) == hashValue % Len(teamColors)

\* assignTeamPlayerColor(team, playerId): the outcomes [alloc, env, result, ac].
assignTeamPlayerColor(a, e, team, playerId) ==
    IF hasTeamPlayer(a, playerId)
    THEN {[alloc |-> a, env |-> e, ac |-> NoCall,
           result |-> Returned(a.teamPlayerColors[playerId])]}
    ELSE UNION {
           IF v.ac.kind = "threw"
           THEN {[alloc |-> v.alloc, env |-> v.env, ac |-> v.ac, result |-> Threw]}
           ELSE {LET color == v.list[colorIndex(h, v.list) + 1]
                 IN  [alloc |-> [v.alloc EXCEPT !.teamPlayerColors =
                                    (playerId :> color) @@ v.alloc.teamPlayerColors],
                      env |-> NoteHash(v.env, playerId, h),
                      ac |-> v.ac,
                      result |-> Returned(color)]
                   : h \in simpleHash(v.env.hash, playerId)}
           : v \in getTeamColorVariations(a, e, team)}

\* ------------------------------------------------------------- selector
\* The colors handed to the selector. The difference between two of them is
\* arbitrary, so the lists are taken up to renaming, as the palettes are.
SelColors == {1, 2, 3}
SelLists == UNION {[1..n -> SelColors] : n \in 0..MaxLen}
ColorPairs == {p \in SelColors \X SelColors : p[1] < p[2]}
Distances == [ColorPairs -> 0..MaxDist]

\* Infinity, as far as Math.min over differences can tell
Infinity == MaxDist + 1

\* toColor(colord): the Lab value of the color
toColor(c) == [space |-> "lab", of |-> c]

\* deltaE2000(c1, c2): the difference of two Lab values under dist;
\* symmetric, never negative, zero between a color and itself
deltaE2000(dist, c1, c2) ==
    IF c1.of = c2.of THEN 0
    ELSE IF c1.of < c2.of THEN dist[<<c1.of, c2.of>>] ELSE dist[<<c2.of, c1.of>>]

\* Math.min(min, d)
MathMin(x, y) == IF y < x THEN y ELSE x

\* assignedLabColors.reduce(..., Infinity), from position i on
RECURSIVE reduceMin(_, _, _, _, _)
reduceMin(dist, lab1, assignedLabColors, i, min) ==
    IF i > Len(assignedLabColors) THEN min
    ELSE reduceMin(dist, lab1, assignedLabColors, i + 1,
                   MathMin(min, deltaE2000(dist, lab1, assignedLabColors[i])))

\* minDeltaE(lab1, assignedLabColors)
minDeltaE(dist, lab1, assignedLabColors) ==
    reduceMin(dist, lab1, assignedLabColors, 1, Infinity)

\* the test of the scan as it would be if a tie replaced the maximum
exceedsOrTies(deltaE, maxDeltaE) == deltaE >= maxDeltaE

\* if (deltaE > maxDeltaE)
exceeds(deltaE, maxDeltaE) == deltaE > maxDeltaE

\* the for loop of selectDistinctColorIndex, from index i on
RECURSIVE scanAvailable(_, _, _, _, _, _)
scanAvailable(dist, available, assignedLabColors, i, maxDeltaE, maxIndex) ==
    IF i >= Len(available) THEN maxIndex
    ELSE LET deltaE == minDeltaE(dist, toColor(available[i + 1]), assignedLabColors)
         IN  IF exceeds(deltaE, maxDeltaE)
             THEN scanAvailable(dist, available, assignedLabColors, i + 1, deltaE, i)
             ELSE scanAvailable(dist, available, assignedLabColors, i + 1, maxDeltaE, maxIndex)

\* the guard of the selector as it would be if it let an empty list pass
noAssignedColorsUnchecked(assignedColors) == FALSE

\* assignedColors.length === 0
noAssignedColors(assignedColors) == Len(assignedColors) = 0

\* selectDistinctColorIndex(availableColors, assignedColors): threw, or the
\* index returned
selectDistinctColorIndex(dist, available, assignedColors) ==
    IF noAssignedColors(assignedColors)
    THEN [threw |-> TRUE, index |-> 0]
    ELSE [threw |-> FALSE,
          index |-> scanAvailable(dist, available,
                                  [i \in DOMAIN assignedColors |-> toColor(assignedColors[i])],
                                  0, 0, 0)]

NoSelectCall == [called |-> FALSE, threw |-> FALSE, index |-> 0]

\* ---------------------------------------------------------------- calls
AssignColorOp(id) == [name |-> "assignColor", id |-> id, team |-> "", playerId |-> ""]
AssignTeamColorOp(team) == [name |-> "assignTeamColor", id |-> "", team |-> team, playerId |-> ""]
AssignTeamPlayerColorOp(team, playerId) ==
    [name |-> "assignTeamPlayerColor", id |-> "", team |-> team, playerId |-> playerId]

\* The outcomes [alloc, env, result, ac] of a call on allocator a.
Exec(a, e, call) ==
    CASE call.name = "assignColor" ->
           {[alloc |-> o.alloc, env |-> o.env, result |-> o.result, ac |-> o.result]
               : o \in assignColor(a, e, call.id)}
      [] call.name = "assignTeamColor" -> assignTeamColor(a, e, call.team)
      [] call.name = "assignTeamPlayerColor" ->
           assignTeamPlayerColor(a, e, call.team, call.playerId)

\* The identity assignColor ran on inside the call.
AcId(call) == IF call.name = "assignColor" THEN call.id ELSE call.team

Self ==
    [availableColors |-> availableColors,
     fallbackColors |-> fallbackColors,
     assigned |-> assigned,
     teamPlayerColors |-> teamPlayerColors,
     sampleWOReplace |-> sampleWOReplace,
     sameArray |-> sameArray]

Env == [rng |-> rngTable, hash |-> hashTable]

\* The failing draws of an allocator whose active palette is empty push the
\* cursor up without limit; the model follows them as far as MaxLen + 1.
WithinOverrun(a) == a.sampleWOReplace <= MaxLen

\* One call on the allocator, with everything it does. A single allocator
\* never asks the generator twice for the same identity and range, nor the
\* hash twice for the same player (the memo tables answer from then on), so
\* the answers are kept only when a second allocator is to replay the call.
Drive(call, replayed) ==
    /\ WithinOverrun(Self)
    /\ \E o \in Exec(Self, Env, call) :
          /\ availableColors' = o.alloc.availableColors
          /\ fallbackColors' = o.alloc.fallbackColors
          /\ assigned' = o.alloc.assigned
          /\ teamPlayerColors' = o.alloc.teamPlayerColors
          /\ sampleWOReplace' = o.alloc.sampleWOReplace
          /\ sameArray' = o.alloc.sameArray
          \* the caller's lists, where the allocator writes into the same arrays
          /\ colors' = IF "colors" \in o.alloc.sameArray.availableColors
                       THEN o.alloc.availableColors ELSE colors
          /\ fallback' = IF "fallback" \in o.alloc.sameArray.availableColors
                         THEN o.alloc.availableColors
                         ELSE IF "fallback" \in o.alloc.sameArray.fallbackColors
                              THEN o.alloc.fallbackColors ELSE fallback
          /\ sinceReset' =
                IF o.ac.kind = "color" /\ AcId(call) \notin DOMAIN assigned
                THEN IF sampleWOReplace = Len(availableColors)
                     THEN <<o.ac.color>>
                     ELSE Append(sinceReset, o.ac.color)
                ELSE sinceReset
          /\ rngTable' = IF replayed THEN o.env.rng ELSE rngTable
          /\ hashTable' = IF replayed THEN o.env.hash ELSE hashTable
          /\ op' = call
          /\ ret' = o.result
          /\ acRet' = o.ac
          /\ firstColor' =
                IF o.ac.kind = "color" /\ AcId(call) \notin DOMAIN firstColor
                THEN (AcId(call) :> o.ac.color) @@ firstColor
                ELSE firstColor
          /\ firstTeamPlayer' =
                IF /\ call.name = "assignTeamPlayerColor"
                   /\ o.result.kind = "color"
                   /\ call.playerId \notin DOMAIN firstTeamPlayer
                THEN (call.playerId :> o.result.color) @@ firstTeamPlayer
                ELSE firstTeamPlayer

NoSwapCall == [called |-> FALSE, threw |-> FALSE, array |-> <<>>]

InitAllocator(cs, fb) ==
    /\ colors = cs
    /\ fallback = fb
    /\ availableColors = ColorAllocator(cs, fb).availableColors
    /\ fallbackColors = ColorAllocator(cs, fb).fallbackColors
    /\ assigned = ColorAllocator(cs, fb).assigned
    /\ teamPlayerColors = ColorAllocator(cs, fb).teamPlayerColors
    /\ sampleWOReplace = ColorAllocator(cs, fb).sampleWOReplace
    /\ sameArray = ColorAllocator(cs, fb).sameArray
    /\ sinceReset = <<>>
    /\ hist = <<>>
    /\ twinHist = <<>>
    /\ op = NoOp
    /\ ret = NoCall
    /\ acRet = NoCall
    /\ firstColor = EmptyMap
    /\ firstTeamPlayer = EmptyMap
    /\ rngTable = EmptyMap
    /\ hashTable = EmptyMap
    /\ twin = [alloc |-> ColorAllocator(cs, fb), ret |-> NoCall, acRet |-> NoCall]
    /\ pending = NoOp

\* No direct call of swap is under way.
SwapIdle == swArray = <<>> /\ swX = 0 /\ swY = 0 /\ swOut = NoSwapCall

\* No call of selectDistinctColorIndex is under way.
SelectorIdle ==
    /\ selAvailable = <<>>
    /\ selAssigned = <<>>
    /\ selDist = EmptyMap
    /\ selOut = NoSelectCall

\* ------------------------------------------- one allocator, any calls
Init ==
    /\ \E cs \in Palettes, fb \in Palettes : FirstUse(cs \o fb) /\ InitAllocator(cs, fb)
    /\ SwapIdle
    /\ SelectorIdle

AssignColorCall(id) ==
    Drive(AssignColorOp(id), FALSE) /\ UNCHANGED <<twinVars, swapVars, selVars, orderVars>>

AssignTeamColorCall(team) ==
    Drive(AssignTeamColorOp(team), FALSE) /\ UNCHANGED <<twinVars, swapVars, selVars, orderVars>>

AssignTeamPlayerColorCall(team, playerId) ==
    Drive(AssignTeamPlayerColorOp(team, playerId), FALSE) /\ UNCHANGED <<twinVars, swapVars, selVars, orderVars>>

Next ==
    \/ \E id \in Ids : AssignColorCall(id)
    \/ \E team \in TeamInputs : AssignTeamColorCall(team)
    \/ \E team \in TeamInputs, playerId \in Players : AssignTeamPlayerColorCall(team, playerId)

Spec == Init /\ [][Next]_vars

\* ------------------------- two allocators driven by the same calls
\* The first allocator takes a call; the twin then takes the same call, and
\* only then is the next call made.
InitPair == Init

PairCall(call) ==
    /\ pending = NoOp
    /\ Drive(call, TRUE)
    /\ pending' = call
    /\ UNCHANGED <<twin, swapVars, selVars, orderVars>>

TwinReplay ==
    /\ pending # NoOp
    /\ \E o \in Exec(twin.alloc, Env, pending) :
          /\ twin' = [alloc |-> o.alloc, ret |-> o.result, acRet |-> o.ac]
          /\ rngTable' = o.env.rng
          /\ hashTable' = o.env.hash
    /\ pending' = NoOp
    /\ UNCHANGED <<colors, fallback, allocVars, obsVars, swapVars, selVars, orderVars>>

NextPair ==
    \/ \E id \in Ids : PairCall(AssignColorOp(id))
    \/ \E team \in TeamInputs : PairCall(AssignTeamColorOp(team))
    \/ \E team \in TeamInputs, playerId \in Players :
          PairCall(AssignTeamPlayerColorOp(team, playerId))
    \/ TwinReplay

SpecPair == InitPair /\ [][NextPair]_vars

\* ------------------------------------------------ swap, called directly
SwapIndices == (0 - 1)..(MaxLen + 1)

InitSwap ==
    /\ InitAllocator(<<>>, <<>>)
    /\ swArray \in Palettes
    /\ swX \in SwapIndices
    /\ swY \in SwapIndices
    /\ swOut = NoSwapCall
    /\ SelectorIdle

SwapCall ==
    /\ ~swOut.called
    /\ swOut' = [called |-> TRUE,
                 threw |-> swap(swArray, swX, swY).threw,
                 array |-> swap(swArray, swX, swY).array]
    /\ UNCHANGED <<colors, fallback, allocVars, obsVars, extVars, twinVars,
                   swArray, swX, swY, selVars, orderVars>>

NextSwap == SwapCall

SpecSwap == InitSwap /\ [][NextSwap]_vars

\* ------------------------------------- the selector, called directly
InitSelect ==
    /\ InitAllocator(<<>>, <<>>)
    /\ SwapIdle
    /\ selAvailable \in SelLists
    /\ selAssigned \in SelLists
    /\ FirstUse(selAvailable \o selAssigned)
    /\ selDist \in Distances
    /\ selOut = NoSelectCall

SelectCall ==
    /\ ~selOut.called
    /\ selOut' = [called |-> TRUE,
                  threw |-> selectDistinctColorIndex(selDist, selAvailable, selAssigned).threw,
                  index |-> selectDistinctColorIndex(selDist, selAvailable, selAssigned).index]
    /\ UNCHANGED <<colors, fallback, allocVars, obsVars, extVars, twinVars, swapVars,
                   selAvailable, selAssigned, selDist, orderVars>>

NextSelect == SelectCall

SpecSelect == InitSelect /\ [][NextSelect]_vars

\* ------------------ two allocators, each given its own assignColor calls
OrderIds == {"p1", "p2"}

InitOrder == Init

\* hist after a call of assignColor(id) on allocator a
Drawn(h, a, id) == IF hasAssigned(a, id) THEN h ELSE Append(h, id)

OrderCall(id) ==
    /\ Drive(AssignColorOp(id), TRUE)
    /\ hist' = Drawn(hist, Self, id)
    /\ UNCHANGED <<twinVars, swapVars, selVars, twinHist>>

TwinOrderCall(id) ==
    /\ WithinOverrun(twin.alloc)
    /\ \E o \in Exec(twin.alloc, Env, AssignColorOp(id)) :
          /\ twin' = [alloc |-> o.alloc, ret |-> o.result, acRet |-> o.ac]
          /\ rngTable' = o.env.rng
          /\ hashTable' = o.env.hash
    /\ twinHist' = Drawn(twinHist, twin.alloc, id)
    /\ UNCHANGED <<colors, fallback, allocVars, obsVars, pending, swapVars, selVars, hist>>

NextOrder ==
    \/ \E id \in OrderIds : OrderCall(id)
    \/ \E id \in OrderIds : TwinOrderCall(id)

SpecOrder == InitOrder /\ [][NextOrder]_vars

\* ------------------------------- one allocator, two players of the teams
TeamPlayers == {"p1", "p2"}

InitTeam == Init

TeamPlayerCall(team, playerId) ==
    /\ Drive(AssignTeamPlayerColorOp(team, playerId), FALSE)
    /\ UNCHANGED <<twinVars, swapVars, selVars, orderVars>>

TeamOtherCall(id) ==
    /\ Drive(AssignColorOp(id), FALSE)
    /\ UNCHANGED <<twinVars, swapVars, selVars, orderVars>>

NextTeam ==
    \/ \E team \in TeamInputs, playerId \in TeamPlayers : TeamPlayerCall(team, playerId)
    \/ \E id \in Players \cup AdHocTeams : TeamOtherCall(id)

SpecTeam == InitTeam /\ [][NextTeam]_vars

\* ================================================================ claims
Count(s, c) == Cardinality({i \in DOMAIN s : s[i] = c})
SameEntries(s, t) == Len(s) = Len(t) /\ \A c \in Range(s) \cup Range(t) : Count(s, c) = Count(t, c)
Distinct(s) == Cardinality(Range(s)) = Len(s)
Values(m) == {m[k] : k \in DOMAIN m}
NonEmptyPalettes == Len(colors) > 0 /\ Len(fallback) > 0
\* The step runs the draw of assignColor for an identity not yet assigned.
NewDraw == acRet'.kind # "none" /\ AcId(op') \notin DOMAIN assigned

\* C1: every return of assignColor(id) is the color its first return gave,
\* whatever calls came in between and whether or not the palette was
\* switched to the fallback meanwhile.
C1_Memoization ==
    acRet.kind = "color" =>
        /\ AcId(op) \in DOMAIN firstColor
        /\ acRet.color = firstColor[AcId(op)]

\* A memoized identity is asked again after the switch to the fallback: the
\* color returned is a primary color that the fallback does not hold.
C1_Witness ==
    /\ op.name = "assignColor"
    /\ ret.kind = "color"
    /\ Len(colors) > 0
    /\ Cardinality(DOMAIN assigned) > Len(colors)
    /\ ret.color \notin Range(fallback)
    /\ \A c \in Range(availableColors) : c \in Range(fallback)

\* C2: with a primary palette of N pairwise-distinct colors, the first N
\* identities drawn have pairwise-distinct colors, all from the primary
\* palette, and once N are drawn every primary entry has been handed out.
C2_NoRepeatUntilExhaustion ==
    (Distinct(colors) /\ Cardinality(DOMAIN assigned) <= Len(colors)) =>
        /\ \A j, k \in DOMAIN assigned : j # k => assigned[j] # assigned[k]
        /\ Values(assigned) \subseteq Range(colors)
        /\ Cardinality(DOMAIN assigned) = Len(colors) => Values(assigned) = Range(colors)

C2_Witness ==
    /\ Distinct(colors)
    /\ Len(colors) >= 2
    /\ Cardinality(DOMAIN assigned) = Len(colors)
    /\ sampleWOReplace = Len(colors)

\* C3 as stated: the (N+1)-th distinct identity switches the active palette
\* to a copy of the fallback, gets a fallback entry, and leaves the cursor
\* at 1.
C3_ExhaustionRecycling_AsStated ==
    [][(NewDraw /\ Cardinality(DOMAIN assigned) = Len(colors)) =>
          /\ SameEntries(availableColors', fallbackColors)
          /\ acRet'.kind = "color"
          /\ acRet'.color \in Range(fallback)
          /\ sampleWOReplace' = 1]_vars

\* C3, amended: the same, for a non-empty fallback palette.
C3_ExhaustionRecycling ==
    [][(NewDraw /\ Cardinality(DOMAIN assigned) = Len(colors) /\ Len(fallback) > 0) =>
          /\ SameEntries(availableColors', fallbackColors)
          /\ acRet'.kind = "color"
          /\ acRet'.color \in Range(fallback)
          /\ sampleWOReplace' = 1]_vars

\* The identity after the N of a non-empty primary has just been drawn: it
\* holds a color only the fallback has.
C3_Witness ==
    /\ Len(colors) > 0
    /\ Cardinality(DOMAIN assigned) = Len(colors) + 1
    /\ sampleWOReplace = 1
    /\ acRet.kind = "color"
    /\ acRet.color \in Range(fallback)
    /\ acRet.color \notin Range(colors)
    /\ SameEntries(availableColors, fallback)

\* C4: two allocators built from the same palettes and given the same calls
\* return the same at every call and are in the same state after it.
C4_Determinism ==
    pending = NoOp =>
        /\ twin.alloc = Self
        /\ twin.ret = ret
        /\ twin.acRet = acRet

\* Both allocators have drawn past the exhaustion of a non-empty primary.
C4_Witness ==
    /\ pending = NoOp
    /\ Len(colors) > 0
    /\ Cardinality(DOMAIN twin.alloc.assigned) > Len(colors)
    /\ Cardinality(DOMAIN assigned) > Len(colors)
    /\ twin.ret.kind = "color"
    /\ DOMAIN twin.alloc.teamPlayerColors # {}

\* C5 as stated: with non-empty palettes assignColor never throws and
\* returns an entry of the active palette.
C5_Totality_AsStated ==
    NonEmptyPalettes =>
        /\ acRet.kind # "threw"
        /\ acRet.kind = "color" => acRet.color \in Range(availableColors)

\* C5, amended: with non-empty palettes assignColor never throws; for an
\* identity not yet assigned it returns an entry of the active palette, and
\* for an assigned one the color the table holds.
C5_Totality ==
    [][NonEmptyPalettes =>
          /\ acRet'.kind # "threw"
          /\ ret'.kind # "threw"
          /\ acRet'.kind = "color" =>
                IF AcId(op') \in DOMAIN assigned
                THEN acRet'.color = assigned[AcId(op')]
                ELSE acRet'.color \in Range(availableColors')]_vars

\* A second pass over the fallback has begun without an error.
C5_Witness ==
    /\ NonEmptyPalettes
    /\ Cardinality(DOMAIN assigned) > Len(colors) + Len(fallback)
    /\ acRet.kind = "color"
    /\ acRet.color \in Range(availableColors)

\* C6: 0 <= cursor <= length of the active palette, in every state.
C6_CursorBounds ==
    /\ 0 <= sampleWOReplace
    /\ sampleWOReplace <= Len(availableColors)

\* C7: a call in which assignColor throws leaves the active palette, the
\* cursor and the assignment table as they were.
C7_NoPartialMutationOnError ==
    [][acRet'.kind = "threw" =>
          /\ availableColors' = availableColors
          /\ sampleWOReplace' = sampleWOReplace
          /\ assigned' = assigned]_vars

\* C8: swap throws, leaving the array as it was, when an index is negative
\* or at least the length; otherwise it exchanges the two positions and
\* leaves the others.
C8_SwapSafety ==
    swOut.called =>
        IF swX < 0 \/ swX >= Len(swArray) \/ swY < 0 \/ swY >= Len(swArray)
        THEN swOut.threw /\ swOut.array = swArray
        ELSE /\ ~swOut.threw
             /\ Len(swOut.array) = Len(swArray)
             /\ swOut.array[swX + 1] = swArray[swY + 1]
             /\ swOut.array[swY + 1] = swArray[swX + 1]
             /\ \A i \in DOMAIN swArray :
                   (i # swX + 1 /\ i # swY + 1) => swOut.array[i] = swArray[i]

\* swap was called with an index exactly at the length of a non-empty array.
C8_Witness ==
    /\ swOut.called
    /\ Len(swArray) > 0
    /\ swX = Len(swArray)
    /\ swY = 0
    /\ swOut.threw

\* C9: no step removes a key of either table or changes the color under
\* it, and a call adds entries only for the identities it resolves.
C9_AppendOnly ==
    [][/\ \A k \in DOMAIN assigned :
             k \in DOMAIN assigned' /\ assigned'[k] = assigned[k]
       /\ \A k \in DOMAIN teamPlayerColors :
             k \in DOMAIN teamPlayerColors' /\ teamPlayerColors'[k] = teamPlayerColors[k]
       /\ (DOMAIN assigned' \ DOMAIN assigned) \subseteq {AcId(op')}
       /\ (DOMAIN teamPlayerColors' \ DOMAIN teamPlayerColors) \subseteq {op'.playerId}]_vars

\* Both tables hold entries, and a team-player call for a player already in
\* the table was made with a team that would have given another color.
C9_Witness ==
    /\ Cardinality(DOMAIN assigned) >= 2
    /\ DOMAIN teamPlayerColors # {}
    /\ op.name = "assignTeamPlayerColor"
    /\ op.team = "Nations"
    /\ ret.kind = "color"
    /\ ret.color \notin Range(redTeamColors)

\* C10: every return of assignTeamPlayerColor(t, p) is the color its first
\* return for p gave, whatever team t is.
C10_TeamPlayerStability ==
    (op.name = "assignTeamPlayerColor" /\ ret.kind = "color") =>
        /\ op.playerId \in DOMAIN firstTeamPlayer
        /\ ret.color = firstTeamPlayer[op.playerId]

\* The player got a color of the Nations list and is asked again with the
\* ad-hoc team, whose own color is in the assignment table.
C10_Witness ==
    /\ op.name = "assignTeamPlayerColor"
    /\ op.team \in AdHocTeams
    /\ ret.kind = "color"
    /\ ret.color \in Range(redTeamColors)
    /\ op.team \in DOMAIN assigned
    /\ assigned[op.team] # ret.color

\* C11 as stated: assignTeamColor leaves the allocator as it was, for every
\* team.
C11_TeamColorPure_AsStated ==
    [][op'.name = "assignTeamColor" => allocVars' = allocVars]_vars

\* C11, amended: for a team with a fixed variation list assignTeamColor
\* leaves the allocator as it was and returns the rounded first entry of
\* the list, whatever calls came before.
C11_TeamColorPure ==
    [][(op'.name = "assignTeamColor" /\ op'.team = "Nations") =>
          /\ allocVars' = allocVars
          /\ acRet' = NoCall
          /\ ret' = Returned(RoundRgb(redTeamColors[1]))]_vars

\* assignTeamColor("Nations") is called on an allocator that has drawn
\* past its primary palette.
C11_Witness ==
    /\ op.name = "assignTeamColor"
    /\ op.team = "Nations"
    /\ ret.kind = "color"
    /\ Len(colors) > 0
    /\ Cardinality(DOMAIN assigned) > Len(colors)
    /\ DOMAIN teamPlayerColors # {}

\* The step runs the exhaustion reset.
ResetStep == NewDraw /\ sampleWOReplace = Len(availableColors)
\* The arrays list can become by one exchange of two of its positions.
Exchanges(list) ==
    {swap(list, x, y).array : x \in 0 .. Len(list) - 1, y \in 0 .. Len(list) - 1}

\* C15: no call changes the two lists the constructor was given or the
\* stored fallback, which stays equal to the caller's fallback; the palette
\* an exhaustion reset leaves is the fallback with the drawn entry exchanged.
C15_CallerDataUntouched ==
    [][/\ colors' = colors
       /\ fallback' = fallback
       /\ fallbackColors' = fallbackColors
       /\ fallbackColors' = fallback'
       /\ (ResetStep /\ acRet'.kind = "color") =>
              availableColors' \in Exchanges(fallback)]_vars

\* The reset has copied the fallback and draws have since exchanged entries
\* of the copy in place: the active palette is the fallback reordered, the
\* stored fallback is as it was.
C15_Witness ==
    /\ NonEmptyPalettes
    /\ Cardinality(DOMAIN assigned) > Len(colors)
    /\ acRet.kind = "color"
    /\ fallbackColors = fallback
    /\ SameEntries(availableColors, fallback)
    /\ availableColors # fallback

\* C16 as stated: an identity both allocators have assigned has the same
\* color in both, whatever each assigned before it.
C16_OrderIndependent_AsStated ==
    \A id \in DOMAIN assigned \cap DOMAIN twin.alloc.assigned :
        assigned[id] = twin.alloc.assigned[id]

\* C16, amended: two allocators that ran their draws for the same
\* identities in the same order hold the same colors for them and are in the
\* same state, whatever calls for identities already assigned came in between.
C16_SameOrderSameColors ==
    hist = twinHist =>
        /\ assigned = twin.alloc.assigned
        /\ twin.alloc = Self

\* Both allocators drew for the same two identities in the same order, the
\* second past the exhaustion of a non-empty primary.
C16_Witness ==
    /\ hist = twinHist
    /\ Len(hist) = 2
    /\ Len(colors) = 1
    /\ Cardinality(DOMAIN assigned) = 2
    /\ Cardinality(DOMAIN twin.alloc.assigned) = 2

\* C17: a call that draws for a new identity while the cursor equals the
\* active palette's length leaves the cursor at 1 (set back to 0, then the
\* one draw) and the active palette a copy of the fallback with the drawn
\* entry exchanged; every other call leaves the cursor unchanged or one
\* higher, and the active palette the one it was, up to the one exchange.
C17_ResetWithSwap ==
    [][IF ResetStep
       THEN /\ sampleWOReplace' = 1
            /\ availableColors' \in Exchanges(fallbackColors) \cup {fallbackColors}
       ELSE /\ sampleWOReplace' \in {sampleWOReplace, sampleWOReplace + 1}
            /\ availableColors' \in Exchanges(availableColors) \cup {availableColors}]_vars

\* The draw after both entries of a primary of two were handed out: the
\* cursor is back at 1 and the palette holds the fallback's entries.
C17_Witness ==
    /\ Len(colors) = 2
    /\ Len(fallback) > 0
    /\ Cardinality(DOMAIN assigned) = 3
    /\ sampleWOReplace = 1
    /\ acRet.kind = "color"
    /\ SameEntries(availableColors, fallback)

\* C19: a call of assignColor for an identity that has an entry returns the
\* entry and leaves the palette, the cursor and both tables as they were,
\* at whatever cursor.
C19_MemoHitNoEffect ==
    [][(op'.name = "assignColor" /\ op'.id \in DOMAIN assigned) =>
           /\ allocVars' = allocVars
           /\ ret' = Returned(assigned[op'.id])]_vars

\* A hit while the cursor is at the end of a palette of two: the call
\* returned a color other than the one drawn last, and no reset ran.
C19_Witness ==
    /\ op.name = "assignColor"
    /\ ret.kind = "color"
    /\ Len(availableColors) = 2
    /\ Distinct(availableColors)
    /\ sampleWOReplace = Len(availableColors)
    /\ Len(sinceReset) = 2
    /\ sinceReset[2] # ret.color
    /\ op.id \in DOMAIN assigned

\* C18: assignTeamPlayerColor(team, p) for a team with no fixed list and a
\* player with no entry returns the color the assignment table holds for the
\* team after the call and stores it for the player; the call draws (one
\* entry, the cursor one further) only if the team had no entry before, and
\* otherwise leaves the palette, the cursor and the assignment table alone.
C18_AdHocTeamResolution ==
    [][(/\ op'.name = "assignTeamPlayerColor"
        /\ op'.team \in AdHocTeams
        /\ op'.playerId \notin DOMAIN teamPlayerColors
        /\ ret'.kind = "color") =>
           /\ op'.team \in DOMAIN assigned'
           /\ ret'.color = assigned'[op'.team]
           /\ teamPlayerColors' = (op'.playerId :> assigned'[op'.team]) @@ teamPlayerColors
           /\ IF op'.team \in DOMAIN assigned
              THEN /\ assigned' = assigned
                   /\ availableColors' = availableColors
                   /\ sampleWOReplace' = sampleWOReplace
              ELSE /\ assigned' = (op'.team :> ret'.color) @@ assigned
                   /\ sampleWOReplace' = IF ResetStep THEN 1 ELSE sampleWOReplace + 1
                   /\ ret'.color = availableColors'[Len(availableColors') - sampleWOReplace' + 1]]_vars

\* Both players were given the color of the ad-hoc team, and the two
\* resolutions took one entry of the primary between them.
C18_Witness ==
    /\ Len(colors) = 2
    /\ DOMAIN assigned = AdHocTeams
    /\ sampleWOReplace = 1
    /\ DOMAIN teamPlayerColors = TeamPlayers
    /\ \A p \in TeamPlayers : \E t \in AdHocTeams : teamPlayerColors[p] = assigned[t]

\* The palette the active palette was last copied from: the primary until
\* the first exhaustion reset, the fallback from then on. Without a failed
\* draw the table has one entry for each draw made.
CopiedFrom == IF Cardinality(DOMAIN assigned) > Len(colors) THEN fallback ELSE colors

\* C20: with non-empty palettes the active palette is a permutation of the
\* palette it was copied from; the k-th entry handed out since the last
\* reset sits k places from the end, so the last cursor places hold the
\* entries handed out and the places before them the others; and when the
\* cursor has reached the end, the entries handed out since the reset are
\* the entries of that palette, each once.
C20_UsedUnusedPartition ==
    NonEmptyPalettes =>
        /\ SameEntries(availableColors, CopiedFrom)
        /\ Len(sinceReset) = sampleWOReplace
        /\ sampleWOReplace <= Len(availableColors)
        /\ \A k \in 1 .. sampleWOReplace :
              availableColors[Len(availableColors) - k + 1] = sinceReset[k]
        /\ SameEntries(SubSeq(availableColors, 1, Len(availableColors) - sampleWOReplace)
                           \o sinceReset,
                       CopiedFrom)
        /\ sampleWOReplace = Len(availableColors) => SameEntries(sinceReset, CopiedFrom)

\* A full pass over a fallback of two has just ended: three identities hold
\* colors, the last two the two entries of the fallback.
C20_Witness ==
    /\ Len(colors) = 1
    /\ Len(fallback) = 2
    /\ Distinct(fallback)
    /\ Cardinality(DOMAIN assigned) = 3
    /\ sampleWOReplace = 2
    /\ Range(sinceReset) = Range(fallback)
    /\ acRet.kind = "color"

\* The least difference between candidate i (from 0) and the assigned colors.
LeastDifference(i) ==
    LET ds == {deltaE2000(selDist, toColor(selAvailable[i + 1]), toColor(selAssigned[j]))
                  : j \in DOMAIN selAssigned}
    IN  CHOOSE d \in ds : \A x \in ds : d <= x
CandidateIndices == 0..(Len(selAvailable) - 1)

\* C12: the selector throws exactly when the assigned list is empty.
C12_SelectorEmptyAssigned ==
    selOut.called => (selOut.threw <=> Len(selAssigned) = 0)

\* The selector was called with candidates and no assigned color.
C12_Witness ==
    /\ selOut.called
    /\ selOut.threw
    /\ Len(selAvailable) = MaxLen
    /\ selAssigned = <<>>

\* C13: for non-empty candidates and non-empty assigned the selector
\* returns the least index whose least difference to the assigned colors is
\* the greatest among the candidates.
C13_SelectorMaxMin ==
    (selOut.called /\ Len(selAvailable) > 0 /\ Len(selAssigned) > 0) =>
        /\ ~selOut.threw
        /\ selOut.index \in CandidateIndices
        /\ \A i \in CandidateIndices : LeastDifference(i) <= LeastDifference(selOut.index)
        /\ \A i \in CandidateIndices :
              LeastDifference(i) = LeastDifference(selOut.index) => selOut.index <= i

\* Two different candidates tie at a greatest least difference above zero.
C13_Witness ==
    /\ selOut.called
    /\ ~selOut.threw
    /\ Len(selAvailable) >= 2
    /\ Len(selAssigned) >= 2
    /\ selAvailable[1] # selAvailable[2]
    /\ LeastDifference(0) > 0
    /\ LeastDifference(0) = LeastDifference(1)
    /\ selOut.index = 0

\* C14: whenever the selector returns, the index is one of the candidates'.
C14_SelectorValidIndex ==
    (selOut.called /\ ~selOut.threw) => selOut.index \in CandidateIndices

====
